---- MODULE Spec2Model ----
(***************************************************************************)
(* The emoji picker of packages/desktop-client (EmojiSelect.tsx): its      *)
(* virtual search field (buffer, caret, selection, clipboard shortcuts,    *)
(* click and drag), the filtered grid and its keyboard navigation, and the *)
(* open/close protocol with the host.                                      *)
(*                                                                         *)
(* Text is a sequence of codepoints (Array.from(string)); a codepoint is a *)
(* one-character TLA+ string, or a "U+..." token for a glyph codepoint.    *)
(* An optional value (T | null) is a sequence of length at most one:       *)
(* None is null, Some(x) is the value x.                                   *)
(*                                                                         *)
(* One action is one DOM event handled to completion: the handler, the     *)
(* re-render and the effects the re-render triggers (React flushes the     *)
(* effects of an event before the next event is handled).                  *)
(***************************************************************************)
EXTENDS Integers, Sequences, FiniteSets, TLC

\* ------------------------------------------------------------------ bounds

\* Longest search buffer the model explores, in codepoints.
MaxLen == 2

\* Most asynchronous activities the environment keeps going at once: a tracked
\* drag, a clipboard read not yet settled, a scheduled opening.
MaxInFlight == 1

\* ------------------------------------------------------- optional values

None == <<>>

Some(x) == <<x>>

IsSome(o) == o # <<>>

Get(o) == o[1]

Min(a, b) == IF a <= b THEN a ELSE b

Max(a, b) == IF a >= b THEN a ELSE b

\* ------------------------------------------------------ string primitives

\* The characters a key press can produce (e.key.length === 1).
KeyChars == {"t", "U"}

\* The texts a clipboard read can deliver.
PasteTexts == { <<"t", "t">> }

\* String.prototype.toLowerCase, per codepoint.
toLowerCaseChar(c) ==
    CASE c = "T" -> "t"
      [] c = "U" -> "u"
      [] c = "G" -> "g"
      [] c = "F" -> "f"
      [] c = "H" -> "h"
      [] c = "P" -> "p"
      [] c = "B" -> "b"
      [] c = "C" -> "c"
      [] c = "R" -> "r"
      [] c = "S" -> "s"
      [] OTHER -> c

toLowerCase(s) == [i \in 1..Len(s) |-> toLowerCaseChar(s[i])]

\* The white space String.prototype.trim removes.
IsWhiteSpace(c) == c \in {" ", "\t", "\n"}

RECURSIVE trimStart(_)
trimStart(s) ==
    IF s # <<>> /\ IsWhiteSpace(Head(s)) THEN trimStart(Tail(s)) ELSE s

RECURSIVE trimEnd(_)
trimEnd(s) ==
    IF s # <<>> /\ IsWhiteSpace(s[Len(s)])
    THEN trimEnd(SubSeq(s, 1, Len(s) - 1))
    ELSE s

trim(s) == trimEnd(trimStart(s))

\* String.prototype.includes: needle occurs in hay from some position on.
RECURSIVE includesFrom(_, _, _)
includesFrom(hay, needle, pos) ==
    IF pos + Len(needle) > Len(hay)
    THEN FALSE
    ELSE IF SubSeq(hay, pos + 1, pos + Len(needle)) = needle
         THEN TRUE
         ELSE includesFrom(hay, needle, pos + 1)

includes(hay, needle) == includesFrom(hay, needle, 0)

\* chars.slice(from, to) of Array.prototype, 0-based, end exclusive.
slice(chars, from, to) == SubSeq(chars, from + 1, Min(to, Len(chars)))

\* `:${id}:`
Shortcode(id) == <<":">> \o id \o <<":">>

\* ----------------------------------------------------------------- catalog

\* The catalog (@emoji-mart/data), in Object.values order: per entry an id, a
\* name, optional keywords (None when the field is missing) and the rendering
\* variants (skins), each with its glyph.
emojiData == <<
    [id |-> <<"1">>, name |-> <<"H", " ", "P">>,
     keywords |-> Some(<< <<"1">>, <<"h">> >>), skins |-> << <<"U+1F4AF">> >>],
    [id |-> <<"g", "r">>, name |-> <<"G", "r", " ", "F">>,
     keywords |-> Some(<< <<"f">>, <<"g", "r">> >>), skins |-> << <<"U+1F600">> >>],
    [id |-> <<"l", "_", "b", "_", "c">>, name |-> <<"B", " ", "C">>,
     keywords |-> Some(<< <<"b">>, <<"c">> >>), skins |-> << <<"U+1F535">> >>],
    [id |-> <<"t", "_", "u">>, name |-> <<"T", " ", "U">>,
     keywords |-> Some(<< <<"t">>, <<"u">>, <<"y">> >>),
     skins |-> << <<"U+1F44D">>, <<"U+1F44D", "U+1F3FB">> >>],
    [id |-> <<"t", "u", "l">>, name |-> <<"T", "u", "l">>,
     keywords |-> Some(<< <<"f", "l">> >>), skins |-> << <<"U+1F337">> >>],
    [id |-> <<"s">>, name |-> <<"S">>,
     keywords |-> None, skins |-> << <<"U+2B50">> >>],
    [id |-> <<"n", "o">>, name |-> <<"N", "o">>,
     keywords |-> None, skins |-> << >>],
    [id |-> <<"r", "_", "c">>, name |-> <<"R", " ", "C">>,
     keywords |-> Some(<< <<"c">> >>), skins |-> << <<"U+1F534">> >>],
    [id |-> <<"c", "u", "t">>, name |-> <<"C", "u", "t">>,
     keywords |-> Some(<< >>), skins |-> << <<"U+2702">> >>],
    [id |-> <<"h", "u", "t">>, name |-> <<"H", "u", "t">>,
     keywords |-> Some(<< <<"h">> >>), skins |-> << <<"U+1F6D6">> >>]
>>

\* allEmojis: the entries that have a first skin with a glyph, flattened to
\* {id, name, native, keywords}; a missing keyword list becomes the empty list.
RECURSIVE flatten(_)
flatten(raw) ==
    IF raw = <<>>
    THEN <<>>
    ELSE LET e == Head(raw)
         IN IF e.skins # <<>> /\ e.skins[1] # <<>>
            THEN << [id |-> e.id, name |-> e.name, native |-> e.skins[1],
                     keywords |-> IF IsSome(e.keywords)
                                  THEN Get(e.keywords) ELSE <<>>] >>
                 \o flatten(Tail(raw))
            ELSE flatten(Tail(raw))

allEmojis == flatten(emojiData)

\* Grid layout constant emojisPerRow.
emojisPerRow == 7

\* The predicate of allEmojis.filter in filteredEmojis, for the lower-cased and
\* trimmed query.
\* The predicate without its last test, the `:id:` form.
emojiMatches_noShortcodeForm(emoji, query) ==
    \/ includes(toLowerCase(emoji.id), query)
    \/ includes(toLowerCase(emoji.name), query)
    \/ \E k \in 1..Len(emoji.keywords) :
           includes(toLowerCase(emoji.keywords[k]), query)

emojiMatches(emoji, query) ==
    IF includes(toLowerCase(emoji.id), query)
    THEN TRUE
    ELSE IF includes(toLowerCase(emoji.name), query)
    THEN TRUE
    ELSE IF \E k \in 1..Len(emoji.keywords) :
                includes(toLowerCase(emoji.keywords[k]), query)
    THEN TRUE
    ELSE IF includes(toLowerCase(Shortcode(emoji.id)), query)
    THEN TRUE
    ELSE FALSE

\* The filter collecting its matches in reverse order.
RECURSIVE filterEmojis_reversed(_, _)
filterEmojis_reversed(list, query) ==
    IF list = <<>>
    THEN <<>>
    ELSE IF emojiMatches(Head(list), query)
         THEN filterEmojis_reversed(Tail(list), query) \o <<Head(list)>>
         ELSE filterEmojis_reversed(Tail(list), query)

RECURSIVE filterEmojis(_, _)
filterEmojis(list, query) ==
    IF list = <<>>
    THEN <<>>
    ELSE IF emojiMatches(Head(list), query)
         THEN <<Head(list)>> \o filterEmojis(Tail(list), query)
         ELSE filterEmojis(Tail(list), query)

\* The body of the filteredEmojis memo, for one search query.
computeFilteredEmojis(query_) ==
    IF trim(query_) = <<>>
    THEN allEmojis
    ELSE filterEmojis(allEmojis, trim(toLowerCase(query_)))

\* The codepoints a buffer can hold: typed or pasted.
Alphabet == KeyChars \cup UNION {{t[i] : i \in 1..Len(t)} : t \in PasteTexts}

\* The buffers of at most MaxLen codepoints.
Buffers == UNION {[1..n -> Alphabet] : n \in 0..MaxLen}

\* useMemo: the filtered list is computed once per search query.
filteredMemo == [q \in Buffers |-> computeFilteredEmojis(q)] @@ <<>>

\* filteredEmojis as a function of the search query.
filteredEmojis(query_) == filteredMemo[query_]

\* ------------------------------------------------------------------- state

VARIABLES
    embedded,               \* prop: the surface is permanently embedded
    open,                   \* useState(embedded)
    searchQuery,            \* the search buffer, a sequence of codepoints
    caretIndex,             \* caretIndex / caretIndexRef
    selection,              \* selection / selectionRef: None or Some([start, end])
    selectionAnchorRef,     \* None or Some(index)
    isDraggingSelectionRef, \* a drag begun on the search bar is being tracked
                            \* (its window listeners are registered)
    dragAnchor,             \* the anchor frozen by the mouse-down of that drag
                            \* (0 when no drag is tracked)
    focusedIndex,           \* None or Some(index): the grid focus index
    isSearchActive,         \* the search bar owns the arrow keys
    rafPending,             \* the deferred setOpen(true) is scheduled
    pastePending,           \* a clipboard read has been started and not settled
    onSelectCalls,          \* the arguments the last event passed to onSelect
    clipboardWrites,        \* the texts the last event wrote to the clipboard
    lastEvent,              \* the name of the last event handled
    call,                   \* a render-time function applied on its own: its
                            \* name, argument and result
    emojiCache,             \* emoji.ts: the module-level cache, None (null)
                            \* until it is built
    cacheBuilds             \* how many times the cache has been populated

vars == <<embedded, open, searchQuery, caretIndex,
          selection, selectionAnchorRef, isDraggingSelectionRef, dragAnchor,
          focusedIndex, isSearchActive, rafPending, pastePending,
          onSelectCalls, clipboardWrites, lastEvent, call,
          emojiCache, cacheBuilds>>

\* The component's state as one record, as an event handler finds it: the
\* refs agree with the state they mirror, and nothing has been emitted yet.
Now ==
    [open |-> open, searchQuery |-> searchQuery, searchQueryRef |-> searchQuery,
     caretIndex |-> caretIndex, selection |-> selection,
     selectionAnchorRef |-> selectionAnchorRef,
     isDraggingSelectionRef |-> isDraggingSelectionRef,
     dragAnchor |-> dragAnchor,
     focusedIndex |-> focusedIndex, isSearchActive |-> isSearchActive,
     rafPending |-> rafPending, pastePending |-> pastePending,
     onSelectCalls |-> <<>>, clipboardWrites |-> <<>>]

\* ------------------------------------------------- selection and caret

\* Math.max(0, Math.min(n, len))
clamp(n, len) == Max(0, Min(n, len))

clearSelection(s) ==
    [s EXCEPT !.selection = None, !.selectionAnchorRef = None]

\* setSelectionRange keeping a range whose bounds are equal.
setSelectionRange_keepsEmptyRange(s, start, end) ==
    LET len == Len(s.searchQueryRef)
    IN [s EXCEPT !.selection =
                     Some([start |-> clamp(start, len), end |-> clamp(end, len)])]

setSelectionRange(s, start, end) ==
    LET len == Len(s.searchQueryRef)
        st == clamp(start, len)
        e == clamp(end, len)
    IN IF st = e
       THEN [s EXCEPT !.selection = None, !.selectionAnchorRef = None]
       ELSE [s EXCEPT !.selection = Some([start |-> st, end |-> e])]

\* setCaretIndexSafe storing the index it is given, unclamped.
setCaretIndexSafe_unclamped(s, next) == [s EXCEPT !.caretIndex = next]

setCaretIndexSafe(s, next) ==
    [s EXCEPT !.caretIndex = clamp(next, Len(s.searchQueryRef))]

\* The ordered bounds {start: min, end: max} of the active selection.
orderedRange(sel) ==
    [start |-> Min(Get(sel).start, Get(sel).end),
     end |-> Max(Get(sel).start, Get(sel).end)]

closePicker(s) ==
    IF ~embedded
    THEN [s EXCEPT !.open = FALSE, !.searchQuery = <<>>]
    ELSE s

\* The insertion at the caret that leaves the selected text in place.
replaceAllOrInsertAtCaret_insertOnly(s, text, replaceSelection) ==
    LET chars == s.searchQuery
        idx == clamp(s.caretIndex, Len(chars))
    IN [clearSelection(s) EXCEPT
            !.searchQuery = slice(chars, 0, idx) \o text \o slice(chars, idx, Len(chars)),
            !.caretIndex = idx + Len(text),
            !.isSearchActive = TRUE]

replaceAllOrInsertAtCaret(s, text, replaceSelection) ==
    LET activeSelection == IF replaceSelection THEN s.selection ELSE None
        chars == s.searchQuery
        shouldReplace == replaceSelection /\ IsSome(activeSelection)
        idx == clamp(s.caretIndex, Len(chars))
        nextChars ==
            IF shouldReplace
            THEN slice(chars, 0, orderedRange(activeSelection).start) \o text
                 \o slice(chars, orderedRange(activeSelection).end, Len(chars))
            ELSE slice(chars, 0, idx) \o text \o slice(chars, idx, Len(chars))
        nextCaret ==
            IF shouldReplace
            THEN orderedRange(activeSelection).start + Len(text)
            ELSE idx + Len(text)
    IN [clearSelection(s) EXCEPT !.searchQuery = nextChars,
                                 !.caretIndex = nextCaret,
                                 !.isSearchActive = TRUE]

\* ------------------------------------------------------------------ effects

\* useEffect [open]: a closed surface holds no selection.
openEffect(s) ==
    IF ~s.open THEN clearSelection(s) ELSE s

\* useEffect [searchQuery]: refresh searchQueryRef, keep the caret within the
\* buffer, clamp the selection or clear it when it became empty.
clampEffect(s) ==
    LET len == Len(s.searchQuery)
        s1 == [s EXCEPT !.searchQueryRef = s.searchQuery]
        s2 == IF s1.caretIndex > len THEN [s1 EXCEPT !.caretIndex = len] ELSE s1
    IN IF IsSome(s2.selection)
       THEN LET st == clamp(Get(s2.selection).start, len)
                e == clamp(Get(s2.selection).end, len)
            IN IF st = e
               THEN [s2 EXCEPT !.selection = None, !.selectionAnchorRef = None]
               ELSE [s2 EXCEPT !.selection = Some([start |-> st, end |-> e])]
       ELSE s2

\* The effect clearing the selection only, the focused index kept.
resetFocusEffect_keepsIndex(s) == clearSelection(s)

\* useEffect [searchQuery]: reset the focused index when the search changes.
resetFocusEffect(s) ==
    clearSelection([s EXCEPT !.focusedIndex = None])

\* The effects of the render that follows a handler, in declaration order,
\* each run when one of its dependencies differs from the previous render.
runEffects(prev, s) ==
    LET s1 == IF s.open # prev.open THEN openEffect(s) ELSE s
        s2 == IF s.searchQuery # prev.searchQuery THEN clampEffect(s1) ELSE s1
        s3 == IF s.searchQuery # prev.searchQuery THEN resetFocusEffect(s2) ELSE s2
    IN s3

\* ----------------------------------------------------------------- handlers

ArrowKeys == {"ArrowLeft", "ArrowRight", "ArrowUp", "ArrowDown"}

\* Keys that are neither printable nor handled by name: they only open a
\* closed picker.
OtherKeys == {"Tab"}

\* Remove closing the picker without telling the host.
handleRemove_silent(s) == closePicker(s)

handleRemove(s) ==
    closePicker([s EXCEPT !.onSelectCalls = Append(s.onSelectCalls, None)])

handleEmojiSelect(s, emoji) ==
    closePicker([s EXCEPT !.onSelectCalls =
                              Append(s.onSelectCalls, Some(emoji.native))])

\* handleNavigate with Up never leaving the grid: the first row retreats to 0.
handleNavigate_upStaysInGrid(s, key) ==
    LET currentIndex == IF IsSome(s.focusedIndex) THEN Get(s.focusedIndex) ELSE -1
        length == Len(filteredEmojis(s.searchQuery))
        newIndex ==
            CASE key = "ArrowRight" -> Min(currentIndex + 1, length - 1)
              [] key = "ArrowLeft" -> Max(currentIndex - 1, 0)
              [] key = "ArrowDown" ->
                    IF currentIndex = -1
                    THEN 0
                    ELSE Min(currentIndex + emojisPerRow, length - 1)
              [] key = "ArrowUp" -> Max(currentIndex - emojisPerRow, 0)
              [] OTHER -> currentIndex
    IN clearSelection([s EXCEPT !.focusedIndex = Some(newIndex)])

\* handleNavigate with Right and Left wrapping around the ends of the list.
handleNavigate_wraps(s, key) ==
    LET currentIndex == IF IsSome(s.focusedIndex) THEN Get(s.focusedIndex) ELSE -1
        length == Len(filteredEmojis(s.searchQuery))
        newIndex ==
            CASE key = "ArrowRight" -> IF currentIndex + 1 > length - 1 THEN 0 ELSE currentIndex + 1
              [] key = "ArrowLeft" -> IF currentIndex - 1 < 0 THEN length - 1 ELSE currentIndex - 1
              [] key = "ArrowDown" ->
                    IF currentIndex = -1
                    THEN 0
                    ELSE Min(currentIndex + emojisPerRow, length - 1)
              [] key = "ArrowUp" -> Max(currentIndex - emojisPerRow, 0)
              [] OTHER -> currentIndex
    IN IF key = "ArrowUp" /\ currentIndex >= 0 /\ currentIndex < emojisPerRow
       THEN setCaretIndexSafe(
                clearSelection([s EXCEPT !.focusedIndex = None,
                                         !.isSearchActive = TRUE]),
                Len(s.searchQueryRef))
       ELSE clearSelection([s EXCEPT !.focusedIndex = Some(newIndex)])

\* handleNavigate with Down advancing a row without the clamp to the last index.
handleNavigate_downUnclamped(s, key) ==
    LET currentIndex == IF IsSome(s.focusedIndex) THEN Get(s.focusedIndex) ELSE -1
        length == Len(filteredEmojis(s.searchQuery))
        newIndex ==
            CASE key = "ArrowRight" -> Min(currentIndex + 1, length - 1)
              [] key = "ArrowLeft" -> Max(currentIndex - 1, 0)
              [] key = "ArrowDown" ->
                    IF currentIndex = -1
                    THEN 0
                    ELSE currentIndex + emojisPerRow
              [] key = "ArrowUp" -> Max(currentIndex - emojisPerRow, 0)
              [] OTHER -> currentIndex
    IN IF key = "ArrowUp" /\ currentIndex >= 0 /\ currentIndex < emojisPerRow
       THEN setCaretIndexSafe(
                clearSelection([s EXCEPT !.focusedIndex = None,
                                         !.isSearchActive = TRUE]),
                Len(s.searchQueryRef))
       ELSE clearSelection([s EXCEPT !.focusedIndex = Some(newIndex)])

handleNavigate(s, key) ==
    LET currentIndex == IF IsSome(s.focusedIndex) THEN Get(s.focusedIndex) ELSE -1
        length == Len(filteredEmojis(s.searchQuery))
        newIndex ==
            CASE key = "ArrowRight" -> Min(currentIndex + 1, length - 1)
              [] key = "ArrowLeft" -> Max(currentIndex - 1, 0)
              [] key = "ArrowDown" ->
                    IF currentIndex = -1
                    THEN 0
                    ELSE Min(currentIndex + emojisPerRow, length - 1)
              [] key = "ArrowUp" -> Max(currentIndex - emojisPerRow, 0)
              [] OTHER -> currentIndex
    IN IF key = "ArrowUp" /\ currentIndex >= 0 /\ currentIndex < emojisPerRow
       THEN setCaretIndexSafe(
                clearSelection([s EXCEPT !.focusedIndex = None,
                                         !.isSearchActive = TRUE]),
                Len(s.searchQueryRef))
       ELSE clearSelection([s EXCEPT !.focusedIndex = Some(newIndex)])

\* The keys applySearchInputKey handles (it returns true for them).
isSearchInputKey(key) == key \in {"Backspace", "Delete"} \cup KeyChars

\* Backspace removing the codepoint before the caret, a selection or not.
backspaceEdit_atCaretOnly(s) ==
    LET chars == s.searchQuery
        idx == clamp(s.caretIndex, Len(chars))
    IN IF idx = 0
       THEN s
       ELSE [s EXCEPT !.caretIndex = idx - 1,
                      !.searchQuery = slice(chars, 0, idx - 1)
                                      \o slice(chars, idx, Len(chars))]

\* The buffer and caret after Backspace.
backspaceEdit(s) ==
    LET chars == s.searchQuery
        idx == clamp(s.caretIndex, Len(chars))
    IN IF IsSome(s.selection)
       THEN [s EXCEPT !.caretIndex = orderedRange(s.selection).start,
                      !.searchQuery =
                          slice(chars, 0, orderedRange(s.selection).start)
                          \o slice(chars, orderedRange(s.selection).end, Len(chars))]
       ELSE IF idx = 0
            THEN s
            ELSE [s EXCEPT !.caretIndex = idx - 1,
                           !.searchQuery = slice(chars, 0, idx - 1)
                                           \o slice(chars, idx, Len(chars))]

\* The buffer and caret after Delete.
deleteEdit(s) ==
    LET chars == s.searchQuery
        idx == clamp(s.caretIndex, Len(chars))
    IN IF IsSome(s.selection)
       THEN [s EXCEPT !.caretIndex = orderedRange(s.selection).start,
                      !.searchQuery =
                          slice(chars, 0, orderedRange(s.selection).start)
                          \o slice(chars, orderedRange(s.selection).end, Len(chars))]
       ELSE IF idx >= Len(chars)
            THEN s
            ELSE [s EXCEPT !.searchQuery = slice(chars, 0, idx)
                                           \o slice(chars, idx + 1, Len(chars))]

applySearchInputKey(s, key) ==
    CASE key = "Backspace" ->
            [clearSelection(backspaceEdit(s)) EXCEPT !.isSearchActive = TRUE]
      [] key = "Delete" ->
            [clearSelection(deleteEdit(s)) EXCEPT !.isSearchActive = TRUE]
      [] key \in KeyChars -> replaceAllOrInsertAtCaret(s, <<key>>, TRUE)
      [] OTHER -> s

\* The collapse that clears the selection and leaves the caret where it is.
collapseSelectionTo_caretStays(s, idx) ==
    [clearSelection(s) EXCEPT !.selectionAnchorRef = Some(idx)]

collapseSelectionTo(s, idx) ==
    setCaretIndexSafe(
        [clearSelection(s) EXCEPT !.selectionAnchorRef = Some(idx)], idx)

ensureAnchor(s) ==
    IF s.selectionAnchorRef = None
    THEN [s EXCEPT !.selectionAnchorRef = Some(s.caretIndex)]
    ELSE s

extendSelectionTo(s, idx) ==
    LET a == ensureAnchor(s)
    IN setCaretIndexSafe(setSelectionRange(a, Get(a.selectionAnchorRef), idx), idx)

\* handleKeyDown, an arrow key while the search bar is active.
searchArrowKey(s, key, shiftKey) ==
    LET len == Len(s.searchQueryRef)
        hasActiveSelection ==
            IsSome(s.selection) /\ Get(s.selection).start # Get(s.selection).end
        plain == clearSelection(s)
    IN IF hasActiveSelection /\ ~shiftKey
       THEN CASE key = "ArrowLeft" ->
                    collapseSelectionTo(s, orderedRange(s.selection).start)
              [] key = "ArrowRight" ->
                    collapseSelectionTo(s, orderedRange(s.selection).end)
              [] key = "ArrowUp" -> collapseSelectionTo(s, 0)
              [] key = "ArrowDown" -> collapseSelectionTo(s, len)
       ELSE IF shiftKey
       THEN CASE key = "ArrowUp" -> extendSelectionTo(s, 0)
              [] key = "ArrowDown" -> extendSelectionTo(s, len)
              [] key = "ArrowLeft" -> extendSelectionTo(s, s.caretIndex - 1)
              [] key = "ArrowRight" -> extendSelectionTo(s, s.caretIndex + 1)
       ELSE IF key = "ArrowDown" /\ s.caretIndex >= len
       THEN [plain EXCEPT !.isSearchActive = FALSE, !.focusedIndex = Some(0)]
       ELSE CASE key = "ArrowUp" -> setCaretIndexSafe(plain, 0)
              [] key = "ArrowDown" -> setCaretIndexSafe(plain, len)
              [] key = "ArrowLeft" -> setCaretIndexSafe(plain, s.caretIndex - 1)
              [] key = "ArrowRight" -> setCaretIndexSafe(plain, s.caretIndex + 1)

\* The commit guard of Enter: the focus index names an entry of the list.
focusIsValid(s) ==
    /\ s.focusedIndex # None
    /\ Get(s.focusedIndex) >= 0
    /\ Get(s.focusedIndex) < Len(filteredEmojis(s.searchQuery))

handleKeyDown(s, key, shiftKey) ==
    IF key = "Escape"
    THEN IF s.open THEN closePicker(s) ELSE s
    ELSE IF s.open /\ key = "Enter" /\ focusIsValid(s)
    THEN handleEmojiSelect(s, filteredEmojis(s.searchQuery)[Get(s.focusedIndex) + 1])
    ELSE IF s.open
    THEN IF s.isSearchActive /\ key \in ArrowKeys
         THEN searchArrowKey(s, key, shiftKey)
         ELSE IF isSearchInputKey(key)
         THEN applySearchInputKey(s, key)
         ELSE IF key \in ArrowKeys
         THEN handleNavigate([s EXCEPT !.isSearchActive = FALSE], key)
         ELSE s
    ELSE IF key = "Enter"
    THEN s
    ELSE [s EXCEPT !.open = TRUE]

handleGridKeyDown(s, key) ==
    IF key \in ArrowKeys
    THEN handleNavigate(s, key)
    ELSE IF key = "Enter" /\ focusIsValid(s)
    THEN handleEmojiSelect(s, filteredEmojis(s.searchQuery)[Get(s.focusedIndex) + 1])
    ELSE s

\* Select-all that sets the selection and leaves the caret where it is.
shortcutSelectAll_caretStays(s) ==
    LET len == Len(s.searchQueryRef)
        sel == IF len > 0
               THEN setSelectionRange(
                        [s EXCEPT !.selectionAnchorRef = Some(0)], 0, len)
               ELSE s
    IN [sel EXCEPT !.isSearchActive = TRUE]

\* The window keydown handler (capture phase) for Ctrl/Cmd + A.
shortcutSelectAll(s) ==
    LET len == Len(s.searchQueryRef)
        sel == IF len > 0
               THEN setCaretIndexSafe(
                        setSelectionRange(
                            [s EXCEPT !.selectionAnchorRef = Some(0)], 0, len),
                        len)
               ELSE s
    IN [sel EXCEPT !.isSearchActive = TRUE]

\* The text spanned by the ordered bounds of the active selection.
selectedText(s) ==
    slice(s.searchQueryRef, orderedRange(s.selection).start,
          orderedRange(s.selection).end)

\* navigator.clipboard.writeText(text), skipped for the empty text.
writeText(s, text) ==
    IF text # <<>>
    THEN [s EXCEPT !.clipboardWrites = Append(s.clipboardWrites, text)]
    ELSE s

\* The window keydown handler for Ctrl/Cmd + C.
shortcutCopy(s) ==
    IF IsSome(s.selection) THEN writeText(s, selectedText(s)) ELSE s

\* Cut that writes the selected text and deletes nothing.
shortcutCut_copiesOnly(s) ==
    IF IsSome(s.selection) THEN writeText(s, selectedText(s)) ELSE s

\* The window keydown handler for Ctrl/Cmd + X.
shortcutCut(s) ==
    IF ~IsSome(s.selection)
    THEN s
    ELSE LET r == orderedRange(s.selection)
             w == writeText(s, selectedText(s))
             chars == s.searchQuery
         IN [clearSelection(w) EXCEPT
                 !.searchQuery = slice(chars, 0, r.start)
                                 \o slice(chars, r.end, Len(chars)),
                 !.caretIndex = r.start,
                 !.isSearchActive = TRUE]

\* The window keydown handler for Ctrl/Cmd + V: the clipboard read starts.
shortcutPaste(s) == [s EXCEPT !.pastePending = TRUE]

\* The settled read that inserts whatever it is given, the empty text of a
\* failed or empty read too.
pasteSettled_insertsAlways(s, text, rejected) ==
    replaceAllOrInsertAtCaret([s EXCEPT !.pastePending = FALSE], text, TRUE)

\* The read settles: with a text (the .then callback), or rejected (.catch).
pasteSettled(s, text, rejected) ==
    LET done == [s EXCEPT !.pastePending = FALSE]
    IN IF rejected \/ text = <<>>
       THEN done
       ELSE replaceAllOrInsertAtCaret(done, text, TRUE)

\* The results getCaretIndexFromClientX can give: the index of a rendered
\* character span or the span count; the buffer length when the text span is
\* not rendered (closed surface, empty buffer).
caretIndexFromClientX(s) ==
    IF s.open /\ s.searchQueryRef # <<>>
    THEN 0..Len(s.searchQueryRef)
    ELSE {Len(s.searchQueryRef)}

\* onMouseDown of the search bar, clicked at clickedIndex.
searchBarMouseDown(s, clickedIndex, shiftKey) ==
    LET active == [s EXCEPT !.isSearchActive = TRUE]
        moved ==
            IF shiftKey
            THEN LET a == ensureAnchor(active)
                 IN setCaretIndexSafe(
                        setSelectionRange(a, Get(a.selectionAnchorRef), clickedIndex),
                        clickedIndex)
            ELSE setCaretIndexSafe(
                     [clearSelection(active) EXCEPT
                          !.selectionAnchorRef = Some(clickedIndex)],
                     clickedIndex)
    IN [moved EXCEPT
            !.dragAnchor = IF IsSome(moved.selectionAnchorRef)
                           THEN Get(moved.selectionAnchorRef)
                           ELSE clickedIndex,
            !.isDraggingSelectionRef = TRUE]

\* onMove, the window mousemove listener of a drag, sampled at idx.
dragMove(s, idx) ==
    IF ~s.isDraggingSelectionRef
    THEN s
    ELSE setCaretIndexSafe(
             setSelectionRange(
                 [s EXCEPT !.selectionAnchorRef = Some(s.dragAnchor)],
                 s.dragAnchor, idx),
             idx)

\* onUp, the window mouseup listener of a drag.
dragUp(s) == [s EXCEPT !.isDraggingSelectionRef = FALSE, !.dragAnchor = 0]

\* onPointerUp of the trigger input.
inputPointerUp(s) ==
    IF ~embedded
    THEN IF s.open THEN closePicker(s) ELSE [s EXCEPT !.open = TRUE]
    ELSE s

\* onFocus of the trigger input.
inputFocus(s, openOnFocus) ==
    IF ~embedded /\ openOnFocus THEN [s EXCEPT !.open = TRUE] ELSE s

\* The blur that clears the value whatever clearOnBlur and the value are.
inputBlur_clearsAlways(s, toPopover, clearOnBlur, value) ==
    IF toPopover
    THEN s
    ELSE LET closed == IF ~embedded THEN closePicker(s) ELSE s
         IN [closed EXCEPT !.onSelectCalls = Append(closed.onSelectCalls, None)]

\* onBlur of the trigger input; toPopover: focus moves into the popover;
\* value: the value prop of the render the handler belongs to.
inputBlur(s, toPopover, clearOnBlur, value) ==
    IF toPopover
    THEN s
    ELSE LET closed == IF ~embedded THEN closePicker(s) ELSE s
         IN IF clearOnBlur /\ (value = None \/ Get(value) = <<>>)
            THEN [closed EXCEPT !.onSelectCalls = Append(closed.onSelectCalls, None)]
            ELSE closed

\* The text shown in the trigger input for the value prop.
displayValue(value) == IF value = None THEN <<>> ELSE Get(value)

\* ------------------------------------------------------------------ actions

\* The values the host passes as the value prop.
Values == {None, Some(Shortcode(allEmojis[1].id))}

\* No function is applied on its own.
NoCall == [fn |-> "none", arg |-> <<>>, ret |-> <<>>, done |-> FALSE]

\* The state after the first render and its mount effects: a surface the
\* host declares closed (isOpen === false) is closed, an isOpen of true has
\* the deferred opening scheduled.
Init ==
    /\ embedded \in BOOLEAN
    /\ \E isOpen \in {None, Some(TRUE), Some(FALSE)} :
           /\ open = IF isOpen = Some(FALSE) THEN FALSE ELSE embedded
           /\ rafPending = (isOpen = Some(TRUE))
    /\ searchQuery = <<>>
    /\ caretIndex = 0
    /\ selection = None
    /\ selectionAnchorRef = None
    /\ isDraggingSelectionRef = FALSE
    /\ dragAnchor = 0
    /\ focusedIndex = None
    /\ isSearchActive = FALSE
    /\ pastePending = FALSE
    /\ onSelectCalls = <<>>
    /\ clipboardWrites = <<>>
    /\ lastEvent = "mount"
    /\ call = NoCall
    /\ emojiCache = None
    /\ cacheBuilds = 0

\* The asynchronous activities going on: each ends in a later event.
InFlight ==
    (IF rafPending THEN 1 ELSE 0) + (IF pastePending THEN 1 ELSE 0)
    + (IF isDraggingSelectionRef THEN 1 ELSE 0)

\* An event ends: the handler's result s is rendered, the effects run, and
\* the outcome is the next state. Buffers longer than MaxLen are cut off.
Commit(ev, s) ==
    \E t \in {runEffects(Now, s)} :
       /\ Len(t.searchQuery) <= MaxLen
       /\ open' = t.open
       /\ searchQuery' = t.searchQuery
       /\ caretIndex' = t.caretIndex
       /\ selection' = t.selection
       /\ selectionAnchorRef' = t.selectionAnchorRef
       /\ isDraggingSelectionRef' = t.isDraggingSelectionRef
       /\ dragAnchor' = t.dragAnchor
       /\ focusedIndex' = t.focusedIndex
       /\ isSearchActive' = t.isSearchActive
       /\ rafPending' = t.rafPending
       /\ pastePending' = t.pastePending
       /\ onSelectCalls' = t.onSelectCalls
       /\ clipboardWrites' = t.clipboardWrites
       /\ lastEvent' = ev
       /\ UNCHANGED <<embedded, call, emojiCache, cacheBuilds>>

\* --- keys on the trigger input (handleKeyDown)

KeyEscape == Commit("Escape", handleKeyDown(Now, "Escape", FALSE))

KeyEnter == Commit("Enter", handleKeyDown(Now, "Enter", FALSE))

KeyArrow ==
    \E key \in ArrowKeys, shiftKey \in BOOLEAN :
        Commit(IF shiftKey THEN "Shift+" \o key ELSE key,
               handleKeyDown(Now, key, shiftKey))

KeyBackspace == Commit("Backspace", handleKeyDown(Now, "Backspace", FALSE))

KeyDelete == Commit("Delete", handleKeyDown(Now, "Delete", FALSE))

KeyChar == \E c \in KeyChars : Commit("Char", handleKeyDown(Now, c, FALSE))

KeyOther == \E key \in OtherKeys : Commit("OtherKey", handleKeyDown(Now, key, FALSE))

\* --- clipboard shortcuts (window keydown listener, registered while open)

ShortcutSelectAll == open /\ Commit("SelectAll", shortcutSelectAll(Now))

ShortcutCopy == open /\ Commit("Copy", shortcutCopy(Now))

ShortcutCut == open /\ Commit("Cut", shortcutCut(Now))

ShortcutPaste ==
    /\ open
    /\ ~pastePending
    /\ InFlight < MaxInFlight
    /\ Commit("PasteKey", shortcutPaste(Now))

PasteResolve ==
    /\ pastePending
    /\ \E text \in PasteTexts \cup {<<>>} :
           Commit(IF text = <<>> THEN "PasteEmpty" ELSE "PasteResolve",
                  pasteSettled(Now, text, FALSE))

PasteReject ==
    /\ pastePending
    /\ Commit("PasteReject", pasteSettled(Now, <<>>, TRUE))

\* --- pointer on the search bar

SearchBarMouseDown ==
    /\ open
    /\ ~isDraggingSelectionRef
    /\ InFlight < MaxInFlight
    /\ \E clickedIndex \in caretIndexFromClientX(Now), shiftKey \in BOOLEAN :
           Commit(IF shiftKey THEN "Shift+MouseDown" ELSE "MouseDown",
                  searchBarMouseDown(Now, clickedIndex, shiftKey))

DragMove ==
    /\ isDraggingSelectionRef
    /\ \E idx \in caretIndexFromClientX(Now) : Commit("DragMove", dragMove(Now, idx))

DragUp == isDraggingSelectionRef /\ Commit("DragUp", dragUp(Now))

\* --- pointer and focus on the grid. GridMouseMove is onMouseMove of the
\* grid and onFocus of an entry's button (both set the focus index to the
\* entry's index); GridMouseLeave is onMouseLeave of the grid and of the
\* popover, and onBlur of the focused entry's button.

GridMouseMove ==
    /\ open
    /\ \E idx \in 0..(Len(filteredEmojis(searchQuery)) - 1) :
           Commit("GridMouseMove", [Now EXCEPT !.focusedIndex = Some(idx)])

GridMouseLeave == open /\ Commit("GridMouseLeave", [Now EXCEPT !.focusedIndex = None])

EmojiClick ==
    /\ open
    /\ LET list == filteredEmojis(searchQuery)
       IN \E idx \in 1..Len(list) :
              Commit("EmojiClick", handleEmojiSelect(Now, list[idx]))

GridKeyDown ==
    /\ open
    /\ \E key \in ArrowKeys \cup {"Enter"} :
           Commit("Grid" \o key, handleGridKeyDown(Now, key))

RemovePress == open /\ Commit("Remove", handleRemove(Now))

\* --- the trigger input and the popover

InputPointerUp == Commit("PointerUp", inputPointerUp(Now))

InputFocus == \E openOnFocus \in BOOLEAN : Commit("Focus", inputFocus(Now, openOnFocus))

InputBlur ==
    \E toPopover \in BOOLEAN, clearOnBlur \in BOOLEAN, value \in Values :
        /\ toPopover => open
        /\ Commit(IF clearOnBlur /\ (value = None \/ Get(value) = <<>>)
                  THEN "BlurNoValue" ELSE "Blur",
                  inputBlur(Now, toPopover, clearOnBlur, value))

PopoverOpenChange == open /\ ~embedded /\ Commit("OpenChange", closePicker(Now))

\* --- the host

\* useEffect [externalIsOpen]: the host changes the isOpen prop to isOpen. The
\* cleanup cancels a scheduled opening; false closes and empties the buffer,
\* true schedules the opening. The prop itself is not kept: passing the value
\* it already has stands for passing undefined and then that value again,
\* which runs the same effect on the same state.
externalIsOpenEffect(s, isOpen) ==
    LET cancelled == [s EXCEPT !.rafPending = FALSE]
    IN IF isOpen = None
       THEN cancelled
       ELSE IF ~Get(isOpen)
       THEN [cancelled EXCEPT !.open = FALSE, !.searchQuery = <<>>]
       ELSE [cancelled EXCEPT !.rafPending = TRUE]

HostSetIsOpen ==
    \E isOpen \in {None, Some(TRUE), Some(FALSE)} :
        /\ isOpen = Some(TRUE) => InFlight < MaxInFlight
        /\ Commit("HostSetIsOpen", externalIsOpenEffect(Now, isOpen))

\* requestAnimationFrame(() => setOpen(true))
RafFire == rafPending /\ Commit("Raf", [Now EXCEPT !.open = TRUE, !.rafPending = FALSE])

Next ==
    \/ KeyEscape \/ KeyEnter \/ KeyArrow \/ KeyBackspace \/ KeyDelete
    \/ KeyChar \/ KeyOther
    \/ ShortcutSelectAll \/ ShortcutCopy \/ ShortcutCut \/ ShortcutPaste
    \/ PasteResolve \/ PasteReject
    \/ SearchBarMouseDown \/ DragMove \/ DragUp
    \/ GridMouseMove \/ GridMouseLeave \/ EmojiClick
    \/ GridKeyDown \/ RemovePress
    \/ InputPointerUp \/ InputFocus \/ InputBlur \/ PopoverOpenChange
    \/ HostSetIsOpen \/ RafFire

Spec == Init /\ [][Next]_vars

\* ------------------------------------------------------ resolver (emoji.ts)

\* The codepoints above the ASCII range (codePointAt(0) > 127): those of the
\* catalog's glyphs, and one that is part of no catalog glyph.
NonAsciiChars ==
    UNION {UNION {{emojiData[k].skins[n][i] : i \in 1..Len(emojiData[k].skins[n])} :
                  n \in 1..Len(emojiData[k].skins)} : k \in 1..Len(emojiData)}
    \cup {"U+2603"}

\* Array.from(emoji).some(char => (char.codePointAt(0) ?? 0) > 127)
hasNonAscii(emoji) == \E i \in 1..Len(emoji) : emoji[i] \in NonAsciiChars

\* The character class [a-zA-Z0-9_-].
IdClassChars ==
    {"a", "b", "c", "d", "e", "f", "g", "h", "i", "j", "k", "l", "m",
     "n", "o", "p", "q", "r", "s", "t", "u", "v", "w", "x", "y", "z",
     "A", "B", "C", "D", "E", "F", "G", "H", "I", "J", "K", "L", "M",
     "N", "O", "P", "Q", "R", "S", "T", "U", "V", "W", "X", "Y", "Z",
     "0", "1", "2", "3", "4", "5", "6", "7", "8", "9", "_", "-"}

\* The test that accepts nothing.
matchesIdClass_never(flag) == FALSE

\* /^[a-zA-Z0-9_-]+$/.test(flag)
matchesIdClass(flag) ==
    flag # <<>> /\ \A i \in 1..Len(flag) : flag[i] \in IdClassChars

\* flag.includes(':')
includesColon(flag) == \E i \in 1..Len(flag) : flag[i] = ":"

RECURSIVE stripLeadingColons(_)
stripLeadingColons(s) ==
    IF s # <<>> /\ Head(s) = ":" THEN stripLeadingColons(Tail(s)) ELSE s

RECURSIVE stripTrailingColons(_)
stripTrailingColons(s) ==
    IF s # <<>> /\ s[Len(s)] = ":"
    THEN stripTrailingColons(SubSeq(s, 1, Len(s) - 1))
    ELSE s

\* replace(/^:/, '').replace(/:$/, ''): one colon off each end.
stripOneColonEachEnd(s) ==
    LET t == IF s # <<>> /\ Head(s) = ":" THEN Tail(s) ELSE s
    IN IF t # <<>> /\ t[Len(t)] = ":" THEN SubSeq(t, 1, Len(t) - 1) ELSE t

\* The stripping taking one colon only off each end.
stripColonRuns_oneEach(s) == stripOneColonEachEnd(s)

\* replace(/^:+|:+$/g, ''): the runs of colons off both ends.
stripColonRuns(s) == stripTrailingColons(stripLeadingColons(s))

\* Map.prototype.set
cacheSet(cache, key, value) ==
    [k \in DOMAIN cache \cup {key} |-> IF k = key THEN value ELSE cache[k]]

\* The forEach storing the glyph -> id direction only.
RECURSIVE cacheEntries_glyphToIdOnly(_, _)
cacheEntries_glyphToIdOnly(raw, cache) ==
    IF raw = <<>>
    THEN cache
    ELSE LET e == Head(raw)
         IN IF e.skins # <<>> /\ e.skins[1] # <<>>
            THEN cacheEntries_glyphToIdOnly(Tail(raw),
                                            cacheSet(cache, e.skins[1], e.id))
            ELSE cacheEntries_glyphToIdOnly(Tail(raw), cache)

\* The forEach storing the id -> glyph direction only.
RECURSIVE cacheEntries_idToGlyphOnly(_, _)
cacheEntries_idToGlyphOnly(raw, cache) ==
    IF raw = <<>>
    THEN cache
    ELSE LET e == Head(raw)
         IN IF e.skins # <<>> /\ e.skins[1] # <<>>
            THEN cacheEntries_idToGlyphOnly(Tail(raw),
                                            cacheSet(cache, e.id, e.skins[1]))
            ELSE cacheEntries_idToGlyphOnly(Tail(raw), cache)

\* The forEach of buildEmojiCache over the entries not yet visited: an entry
\* with a first skin that has a glyph is stored in both directions.
RECURSIVE cacheEntries(_, _)
cacheEntries(raw, cache) ==
    IF raw = <<>>
    THEN cache
    ELSE LET e == Head(raw)
         IN IF e.skins # <<>> /\ e.skins[1] # <<>>
            THEN cacheEntries(Tail(raw),
                     cacheSet(cacheSet(cache, e.id, e.skins[1]), e.skins[1], e.id))
            ELSE cacheEntries(Tail(raw), cache)

\* The map buildEmojiCache returns: id -> glyph and glyph -> id in one map.
buildEmojiCache == cacheEntries(emojiData, <<>>)

\* cache.has(key)
cacheHas(key) == key \in DOMAIN buildEmojiCache

\* cache.get(key): None is undefined.
cacheGet(key) == IF cacheHas(key) THEN Some(buildEmojiCache[key]) ELSE None

shortcodeToNative(shortcode) ==
    IF shortcode = None \/ Get(shortcode) = <<>>
    THEN <<>>
    ELSE LET id == stripColonRuns(Get(shortcode))
             native == cacheGet(id)
         IN IF id = <<>>
            THEN Get(shortcode)
            ELSE IF IsSome(native) /\ Get(native) # <<>>
            THEN Get(native)
            ELSE Get(shortcode)

nativeToShortcode(emoji) ==
    IF emoji = None \/ Get(emoji) = <<>>
    THEN <<>>
    ELSE IF includesColon(Get(emoji)) \/ ~hasNonAscii(Get(emoji))
    THEN Shortcode(stripOneColonEachEnd(Get(emoji)))
    ELSE LET shortcode == cacheGet(Get(emoji))
         IN IF IsSome(shortcode) /\ Get(shortcode) # <<>>
            THEN Shortcode(Get(shortcode))
            ELSE Get(emoji)

\* Returns None for null.
normalizeFlagToShortcode(flag) ==
    IF flag = None \/ Get(flag) = <<>>
    THEN None
    ELSE IF includesColon(Get(flag))
    THEN LET id == stripColonRuns(Get(flag))
         IN IF id # <<>> THEN Some(Shortcode(id)) ELSE None
    ELSE IF matchesIdClass(Get(flag))
    THEN Some(Shortcode(Get(flag)))
    ELSE LET shortcode == cacheGet(Get(flag))
         IN IF IsSome(shortcode) /\ Get(shortcode) # <<>>
            THEN Some(Shortcode(Get(shortcode)))
            ELSE flag

\* Returns None for null.
validateNormalizeShortcode(shortcode) ==
    IF shortcode = None \/ Get(shortcode) = <<>>
    THEN None
    ELSE LET id == stripColonRuns(Get(shortcode))
         IN IF id = <<>>
            THEN None
            ELSE IF cacheHas(id) THEN Some(Shortcode(id)) ELSE None

\* ------------------------------------------------- functions on their own

\* Longest search query the filter is applied to, in codepoints.
MaxQueryLen == 3

\* The codepoints of those queries.
QueryChars == {"t", "U", "f", "l", " ", ":", "_"}

\* The spellings of the id t_u the search is tried with: with a space, run
\* together, as the id, as `:id:`, with an inner colon, with doubled colons.
SpelledQueries ==
    { <<"t", " ", "u">>, <<"t", "u">>, <<"t", "_", "u">>,
      <<":", "t", "_", "u", ":">>, <<":", "t", ":", "u", ":">>,
      <<":", ":", "t", "_", "u", ":", ":">> }

\* The search queries the filter is applied to.
Queries == UNION {[1..n -> QueryChars] : n \in 0..MaxQueryLen} \cup SpelledQueries

\* The value props the trigger input is rendered for: null, the empty
\* string, and for each catalog entry its shortcode and its glyph.
DisplayValues ==
    {None, Some(<<>>)}
    \cup {Some(Shortcode(allEmojis[k].id)) : k \in 1..Len(allEmojis)}
    \cup {Some(allEmojis[k].native) : k \in 1..Len(allEmojis)}

\* Longest run of colons put before and after a resolver input.
MaxColons == 3

\* A run of n colons.
RECURSIVE Colons(_)
Colons(n) == IF n = 0 THEN <<>> ELSE <<":">> \o Colons(n - 1)

\* The texts the resolver inputs are built around: the id and the first glyph
\* of every catalog entry, the id of the entry without a glyph, a second skin
\* and a glyph of no entry, an id of no entry, a part of an id, an id with a
\* colon inside, a text outside the id class, and the empty text.
ResolverCores ==
    {emojiData[k].id : k \in 1..Len(emojiData)}
    \cup {allEmojis[k].native : k \in 1..Len(allEmojis)}
    \cup { <<"U+1F44D", "U+1F3FB">>, <<"U+2603">>, <<"z", "z">>, <<"b", "_", "c">>,
           <<"t", ":", "u">>, <<"t", " ", "u">>, <<>> }

\* The resolver inputs: null, and each core inside runs of colons.
ResolverInputs ==
    {None}
    \cup {Some(Colons(i) \o core \o Colons(j)) :
              i \in 0..MaxColons, j \in 0..MaxColons, core \in ResolverCores}

\* The exported functions of emoji.ts.
ResolverFns ==
    {"shortcodeToNative", "nativeToShortcode",
     "normalizeFlagToShortcode", "validateNormalizeShortcode"}

\* ":" + id + ":" for every entry of the catalog data, and the glyph of every
\* entry that has one: the values that go through the resolver and back.
CatalogShortcodes == {Some(Shortcode(emojiData[k].id)) : k \in 1..Len(emojiData)}

CatalogGlyphs == {Some(allEmojis[k].native) : k \in 1..Len(allEmojis)}

\* The picker as first rendered, closed, and one function application about
\* to be made on an input of its domain.
InitPure ==
    /\ embedded = FALSE
    /\ open = FALSE
    /\ rafPending = FALSE
    /\ searchQuery = <<>>
    /\ caretIndex = 0
    /\ selection = None
    /\ selectionAnchorRef = None
    /\ isDraggingSelectionRef = FALSE
    /\ dragAnchor = 0
    /\ focusedIndex = None
    /\ isSearchActive = FALSE
    /\ pastePending = FALSE
    /\ onSelectCalls = <<>>
    /\ clipboardWrites = <<>>
    /\ lastEvent = "mount"
    /\ emojiCache = Some(buildEmojiCache)
    /\ cacheBuilds = 1
    /\ call \in {[fn |-> "displayValue", arg |-> v, ret |-> <<>>, done |-> FALSE] :
                     v \in DisplayValues}
               \cup {[fn |-> "filteredEmojis", arg |-> q, ret |-> <<>>, done |-> FALSE] :
                        q \in Queries}
               \cup {[fn |-> f, arg |-> a, ret |-> <<>>, done |-> FALSE] :
                        f \in ResolverFns, a \in ResolverInputs}
               \cup {[fn |-> f, arg |-> a, ret |-> <<>>, done |-> FALSE] :
                        f \in {"normalizeFlagToShortcode.shortcodeToNative",
                               "nativeToShortcode.shortcodeToNative"},
                        a \in CatalogShortcodes}
               \cup {[fn |-> "shortcodeToNative.nativeToShortcode", arg |-> a,
                      ret |-> <<>>, done |-> FALSE] : a \in CatalogGlyphs}

Return(result) ==
    /\ call' = [call EXCEPT !.ret = result, !.done = TRUE]
    /\ UNCHANGED <<embedded, open, searchQuery, caretIndex,
                   selection, selectionAnchorRef, isDraggingSelectionRef,
                   dragAnchor, focusedIndex, isSearchActive, rafPending,
                   pastePending, onSelectCalls, clipboardWrites, lastEvent,
                   emojiCache, cacheBuilds>>

\* const displayValue = value || ''
ApplyDisplayValue ==
    /\ call.fn = "displayValue"
    /\ ~call.done
    /\ Return(displayValue(call.arg))

\* The body of the filteredEmojis memo for the search query call.arg.
ApplyFilteredEmojis ==
    /\ call.fn = "filteredEmojis"
    /\ ~call.done
    /\ Return(computeFilteredEmojis(call.arg))

ApplyShortcodeToNative ==
    /\ call.fn = "shortcodeToNative"
    /\ ~call.done
    /\ Return(shortcodeToNative(call.arg))

ApplyNativeToShortcode ==
    /\ call.fn = "nativeToShortcode"
    /\ ~call.done
    /\ Return(nativeToShortcode(call.arg))

ApplyNormalizeFlagToShortcode ==
    /\ call.fn = "normalizeFlagToShortcode"
    /\ ~call.done
    /\ Return(normalizeFlagToShortcode(call.arg))

ApplyValidateNormalizeShortcode ==
    /\ call.fn = "validateNormalizeShortcode"
    /\ ~call.done
    /\ Return(validateNormalizeShortcode(call.arg))

\* The result of one exported function handed to another one.
ApplyNormalizeOfShortcodeToNative ==
    /\ call.fn = "normalizeFlagToShortcode.shortcodeToNative"
    /\ ~call.done
    /\ Return(normalizeFlagToShortcode(Some(shortcodeToNative(call.arg))))

ApplyNativeToShortcodeOfShortcodeToNative ==
    /\ call.fn = "nativeToShortcode.shortcodeToNative"
    /\ ~call.done
    /\ Return(nativeToShortcode(Some(shortcodeToNative(call.arg))))

ApplyShortcodeToNativeOfNativeToShortcode ==
    /\ call.fn = "shortcodeToNative.nativeToShortcode"
    /\ ~call.done
    /\ Return(shortcodeToNative(Some(nativeToShortcode(call.arg))))

NextPure ==
    \/ ApplyDisplayValue \/ ApplyFilteredEmojis
    \/ ApplyShortcodeToNative \/ ApplyNativeToShortcode
    \/ ApplyNormalizeFlagToShortcode \/ ApplyValidateNormalizeShortcode
    \/ ApplyNormalizeOfShortcodeToNative
    \/ ApplyNativeToShortcodeOfShortcodeToNative
    \/ ApplyShortcodeToNativeOfNativeToShortcode

SpecPure == InitPure /\ [][NextPure]_vars

\* ------------------------------------------- the resolver cache over calls

\* The most builds of the cache a behaviour is followed to.
MaxBuilds == 2

\* The inputs of the calls made in sequence: null, and each core bare and
\* wrapped in colons.
ResolverCallInputs ==
    {None} \cup {Some(core) : core \in ResolverCores}
    \cup {Some(Shortcode(core)) : core \in ResolverCores}

\* The cache populated on every call, built before or not.
buildEmojiCacheCall_unguarded(cache, builds) ==
    [cache |-> Some(buildEmojiCache), builds |-> builds + 1]

\* buildEmojiCache(): if (emojiCache) return emojiCache; otherwise the cache
\* is created and populated from the catalog.
buildEmojiCacheCall(cache, builds) ==
    IF IsSome(cache)
    THEN [cache |-> cache, builds |-> builds]
    ELSE [cache |-> Some(buildEmojiCache), builds |-> builds + 1]

\* The call gets as far as its buildEmojiCache() line: it has not returned
\* on one of the tests before it.
reachesCache(fn, arg) ==
    /\ arg # None
    /\ Get(arg) # <<>>
    /\ CASE fn = "shortcodeToNative" -> stripColonRuns(Get(arg)) # <<>>
         [] fn = "nativeToShortcode" ->
                ~(includesColon(Get(arg)) \/ ~hasNonAscii(Get(arg)))
         [] fn = "normalizeFlagToShortcode" ->
                ~includesColon(Get(arg)) /\ ~matchesIdClass(Get(arg))
         [] OTHER -> stripColonRuns(Get(arg)) # <<>>

\* The value the exported function fn returns for arg.
resolverResult(fn, arg) ==
    CASE fn = "shortcodeToNative" -> shortcodeToNative(arg)
      [] fn = "nativeToShortcode" -> nativeToShortcode(arg)
      [] fn = "normalizeFlagToShortcode" -> normalizeFlagToShortcode(arg)
      [] OTHER -> validateNormalizeShortcode(arg)

\* The module as loaded: no cache yet, no call made; the picker idle.
InitResolver ==
    /\ embedded = FALSE
    /\ open = FALSE
    /\ rafPending = FALSE
    /\ searchQuery = <<>>
    /\ caretIndex = 0
    /\ selection = None
    /\ selectionAnchorRef = None
    /\ isDraggingSelectionRef = FALSE
    /\ dragAnchor = 0
    /\ focusedIndex = None
    /\ isSearchActive = FALSE
    /\ pastePending = FALSE
    /\ onSelectCalls = <<>>
    /\ clipboardWrites = <<>>
    /\ lastEvent = "mount"
    /\ emojiCache = None
    /\ cacheBuilds = 0
    /\ call = NoCall

\* One call of an exported function, from start to return.
ResolverCall ==
    /\ cacheBuilds < MaxBuilds
    /\ \E fn \in ResolverFns, arg \in ResolverCallInputs :
           LET built == IF reachesCache(fn, arg)
                        THEN buildEmojiCacheCall(emojiCache, cacheBuilds)
                        ELSE [cache |-> emojiCache, builds |-> cacheBuilds]
           IN /\ emojiCache' = built.cache
              /\ cacheBuilds' = built.builds
              /\ call' = [fn |-> fn, arg |-> arg,
                          ret |-> resolverResult(fn, arg), done |-> TRUE]
    /\ UNCHANGED <<embedded, open, searchQuery, caretIndex,
                   selection, selectionAnchorRef, isDraggingSelectionRef,
                   dragAnchor, focusedIndex, isSearchActive, rafPending,
                   pastePending, onSelectCalls, clipboardWrites, lastEvent>>

NextResolver == ResolverCall

SpecResolver == InitResolver /\ [][NextResolver]_vars

\* ------------------------------------------------------------ properties

\* The values the picker may pass to onSelect: null, or `:id:` for the id of
\* a catalog entry.
CanonicalValues ==
    {None} \cup {Some(Shortcode(allEmojis[k].id)) : k \in 1..Len(allEmojis)}

\* C1: every value passed to onSelect, by any event, is null or exactly
\* ":" + id + ":" for the id of a catalog entry; a glyph is never passed.
C1_OnSelectCanonical ==
    \A i \in 1..Len(onSelectCalls) : onSelectCalls[i] \in CanonicalValues

\* C2: Enter pressed on the open surface while the grid focus index i is
\* within the filtered list of the current buffer passes onSelect the `:id:`
\* of the entry at position i of that list, and nothing else.
C2_EnterCommitsShortcode ==
    [][(/\ lastEvent' = "Enter"
        /\ open
        /\ IsSome(focusedIndex)
        /\ Get(focusedIndex) >= 0
        /\ Get(focusedIndex) < Len(filteredEmojis(searchQuery)))
       => onSelectCalls' =
              << Some(Shortcode(
                     filteredEmojis(searchQuery)[Get(focusedIndex) + 1].id)) >>]_vars

\* C3: for the value ":" + id + ":" of a catalog entry the trigger input
\* displays the entry's glyph, and for a null value the empty string.
C3_DisplaysGlyph ==
    (call.fn = "displayValue" /\ call.done)
    => /\ call.arg = None => call.ret = <<>>
       /\ \A k \in 1..Len(allEmojis) :
              call.arg = Some(Shortcode(allEmojis[k].id))
              => call.ret = allEmojis[k].native

\* C4: a grid focus index, when set, names an entry of the filtered list:
\* 0 <= focusedIndex < filteredCount; none is set when the list is empty.
C4_FocusedIndexInRange ==
    IsSome(focusedIndex)
    => /\ Get(focusedIndex) >= 0
       /\ Get(focusedIndex) < Len(filteredEmojis(searchQuery))

\* C5: on the open surface the buffer is never marked active while a grid
\* focus index is set.
C5_OneFocusRegion ==
    open => ~(isSearchActive /\ IsSome(focusedIndex))

\* C6: the caret lies within the buffer, 0 <= caret <= len(buffer), and so do
\* both bounds of a present selection, lengths counted in codepoints.
C6_CaretAndSelectionInBounds ==
    /\ 0 <= caretIndex
    /\ caretIndex <= Len(searchQuery)
    /\ IsSome(selection)
       => /\ 0 <= Min(Get(selection).start, Get(selection).end)
          /\ Max(Get(selection).start, Get(selection).end) <= Len(searchQuery)

\* C6 happens: a drag has moved the caret to the end of a non-empty buffer
\* and the selection reaches from the anchor to that end.
C6_Witness ==
    /\ lastEvent = "DragMove"
    /\ searchQuery # <<>>
    /\ caretIndex = Len(searchQuery)
    /\ IsSome(selection)
    /\ Get(selection).end = Len(searchQuery)

\* C7: the selection is absent or has start # end; never a zero-width range.
C7_SelectionNeverEmptyRange ==
    IsSome(selection) => Get(selection).start # Get(selection).end

\* C7 happens: Shift+ArrowRight has moved the caret back onto the anchor
\* inside the buffer, and the selection it shrank is absent.
C7_Witness ==
    /\ lastEvent = "Shift+ArrowRight"
    /\ caretIndex > 0
    /\ caretIndex < Len(searchQuery)
    /\ selection = None

\* C8: Escape pressed on the open surface, embedded or not, leaves the buffer
\* empty, the selection absent, no grid focus index, and the surface closed.
C8_EscapeResetsAndCloses ==
    [][(lastEvent' = "Escape" /\ open)
       => /\ searchQuery' = <<>>
          /\ selection' = None
          /\ focusedIndex' = None
          /\ ~open']_vars

\* C9: whenever the surface is closed the buffer is empty, the selection is
\* absent and no grid focus index is retained.
C9_ClosedHoldsNoSession ==
    ~open => /\ searchQuery = <<>>
             /\ selection = None
             /\ focusedIndex = None

\* needle occurs in hay as a contiguous run of codepoints.
IsSubstring(needle, hay) ==
    \E i \in 0..(Len(hay) - Len(needle)) :
        \A j \in 1..Len(needle) : hay[i + j] = needle[j]

\* The entry has q in its case-folded id, name, some keyword, or `:id:`.
FieldContains(e, q) ==
    \/ IsSubstring(q, toLowerCase(e.id))
    \/ IsSubstring(q, toLowerCase(e.name))
    \/ \E k \in 1..Len(e.keywords) : IsSubstring(q, toLowerCase(e.keywords[k]))
    \/ IsSubstring(q, toLowerCase(Shortcode(e.id)))

\* The entry is an element of the list.
InList(e, list) == \E i \in 1..Len(list) : list[i] = e

RECURSIVE IsOrderedSublist(_, _)
IsOrderedSublist(sub, list) ==
    IF sub = <<>>
    THEN TRUE
    ELSE IF list = <<>>
    THEN FALSE
    ELSE IF Head(sub) = Head(list)
    THEN IsOrderedSublist(Tail(sub), Tail(list))
    ELSE IsOrderedSublist(sub, Tail(list))

\* C11: an empty or whitespace-only query yields the full catalog, and for
\* every query the filtered list is the catalog with entries left out, in
\* catalog order and without duplicates.
C11_FilterKeepsCatalogOrder ==
    (call.fn = "filteredEmojis" /\ call.done)
    => /\ (\A i \in 1..Len(call.arg) : call.arg[i] = " ") => call.ret = allEmojis
       /\ IsOrderedSublist(call.ret, allEmojis)
       /\ \A i, j \in 1..Len(call.ret) : call.ret[i] = call.ret[j] => i = j

\* C11 happens: a query kept several entries and dropped the catalog's first.
C11_Witness ==
    /\ call.fn = "filteredEmojis"
    /\ call.done
    /\ Len(call.ret) >= 2
    /\ Len(call.ret) < Len(allEmojis)
    /\ call.ret[1] # allEmojis[1]

\* The catalog entry with the given id.
EntryOf(id) == CHOOSE e \in {allEmojis[k] : k \in 1..Len(allEmojis)} : e.id = id

\* C12: each spelling of the id t_u (with a space, run together, as the id,
\* as `:id:`, with an inner colon, with doubled colons) yields a filtered
\* list that contains the entry t_u and not the unrelated entry l_b_c.
C12_SpelledQueriesFindEntry ==
    (call.fn = "filteredEmojis" /\ call.done /\ call.arg \in SpelledQueries)
    => /\ InList(EntryOf(<<"t", "_", "u">>), call.ret)
       /\ ~InList(EntryOf(<<"l", "_", "b", "_", "c">>), call.ret)

\* The number of colons s begins with.
LeadingColons(s) ==
    CHOOSE i \in 0..Len(s) :
        /\ \A j \in 1..i : s[j] = ":"
        /\ i < Len(s) => s[i + 1] # ":"

\* The number of colons s ends with.
TrailingColons(s) ==
    CHOOSE i \in 0..Len(s) :
        /\ \A j \in 1..i : s[Len(s) + 1 - j] = ":"
        /\ i < Len(s) => s[Len(s) - i] # ":"

\* s without the colons it begins and ends with.
Unwrapped(s) ==
    IF LeadingColons(s) = Len(s)
    THEN <<>>
    ELSE SubSeq(s, LeadingColons(s) + 1, Len(s) - TrailingColons(s))

\* id is the id of a catalog entry (an entry that has a glyph).
IsCatalogId(id) == \E k \in 1..Len(allEmojis) : allEmojis[k].id = id

\* g is the glyph of a catalog entry.
IsCatalogGlyph(g) == \E k \in 1..Len(allEmojis) : allEmojis[k].native = g

\* C13: for every catalog id, shortcodeToNative returns the entry's glyph for
\* ":" + id + ":", for the bare id, and for the id with only a leading or
\* only a trailing colon.
C13_ResolvesIdForms ==
    (call.fn = "shortcodeToNative" /\ call.done)
    => \A k \in 1..Len(allEmojis) :
           call.arg \in {Some(Shortcode(allEmojis[k].id)),
                         Some(allEmojis[k].id),
                         Some(<<":">> \o allEmojis[k].id),
                         Some(allEmojis[k].id \o <<":">>)}
           => call.ret = allEmojis[k].native

\* C13 happens: an id with only a trailing colon was resolved to its glyph.
C13_Witness ==
    /\ call.fn = "shortcodeToNative"
    /\ call.done
    /\ \E k \in 1..Len(allEmojis) :
           /\ call.arg = Some(allEmojis[k].id \o <<":">>)
           /\ call.ret = allEmojis[k].native

\* C14: for every input that without its leading and trailing colons is not
\* the id of a catalog entry (an unknown id, an id with a colon inside, a
\* glyph), shortcodeToNative returns the input unchanged, colons included.
C14_UnknownReturnedUnchanged ==
    (/\ call.fn = "shortcodeToNative"
     /\ call.done
     /\ call.arg # None
     /\ ~IsCatalogId(Unwrapped(Get(call.arg))))
    => call.ret = Get(call.arg)

\* C15: for every catalog id and every k >= 1, shortcodeToNative of the id
\* inside k leading and k trailing colons equals shortcodeToNative of
\* ":" + id + ":".
C15_ColonRunsStripped ==
    (call.fn = "shortcodeToNative" /\ call.done)
    => \A k \in 1..Len(allEmojis), n \in 1..MaxColons :
           call.arg = Some(Colons(n) \o allEmojis[k].id \o Colons(n))
           => call.ret = shortcodeToNative(Some(Shortcode(allEmojis[k].id)))

\* C15 happens: an id inside the longest runs of colons was resolved to the
\* glyph of its entry.
C15_Witness ==
    /\ call.fn = "shortcodeToNative"
    /\ call.done
    /\ \E k \in 1..Len(allEmojis) :
           /\ call.arg = Some(Colons(MaxColons) \o allEmojis[k].id \o Colons(MaxColons))
           /\ call.ret = allEmojis[k].native

\* The id of the catalog entry with glyph g.
IdOfGlyph(g) ==
    (CHOOSE e \in {allEmojis[k] : k \in 1..Len(allEmojis)} : e.native = g).id

\* C16: validateNormalizeShortcode returns ":" + id + ":" exactly when the
\* input without its leading and trailing colons is the id of a catalog
\* entry, and null for every other input (null, empty, colons only, unknown
\* ids, parts of ids).
C16_ValidatesExactIdsOnly ==
    (call.fn = "validateNormalizeShortcode" /\ call.done)
    => IF call.arg # None /\ IsCatalogId(Unwrapped(Get(call.arg)))
       THEN call.ret = Some(Shortcode(Unwrapped(Get(call.arg))))
       ELSE call.ret = None

\* C17: nativeToShortcode of a non-empty value that contains a colon or has no
\* codepoint above ASCII is ":" + id + ":" with id the value without all its
\* leading and trailing colons; of any other value it is ":" + id + ":" if
\* the value is the glyph of catalog entry id, and the value otherwise.
C17_NativeToShortcodeForms ==
    (/\ call.fn = "nativeToShortcode"
     /\ call.done
     /\ call.arg # None
     /\ Get(call.arg) # <<>>)
    => LET value == Get(call.arg)
       IN IF includesColon(value) \/ ~hasNonAscii(value)
          THEN call.ret = Shortcode(Unwrapped(value))
          ELSE IF IsCatalogGlyph(value)
          THEN call.ret = Shortcode(IdOfGlyph(value))
          ELSE call.ret = value

\* C18: normalizeFlagToShortcode yields null for null and the empty string;
\* for a value with a colon ":" + id + ":" with id the value without its
\* leading and trailing colons, or null if that id is empty; for a colon-free
\* value of the class [A-Za-z0-9_-]+ ":" + value + ":", catalog id or not;
\* for any other value ":" + id + ":" if it is the glyph of entry id, and the
\* value unchanged otherwise.
C18_NormalizeFlagForms ==
    (call.fn = "normalizeFlagToShortcode" /\ call.done)
    => IF call.arg = None
       THEN call.ret = None
       ELSE LET value == Get(call.arg)
            IN IF value = <<>>
               THEN call.ret = None
               ELSE IF \E i \in 1..Len(value) : value[i] = ":"
               THEN IF Unwrapped(value) = <<>>
                    THEN call.ret = None
                    ELSE call.ret = Some(Shortcode(Unwrapped(value)))
               ELSE IF \A i \in 1..Len(value) : value[i] \in IdClassChars
               THEN call.ret = Some(Shortcode(value))
               ELSE IF IsCatalogGlyph(value)
               THEN call.ret = Some(Shortcode(IdOfGlyph(value)))
               ELSE call.ret = Some(value)

\* C18 happens: a colon-free value of the id class that is no catalog id was
\* wrapped in colons.
C18_Witness ==
    /\ call.fn = "normalizeFlagToShortcode"
    /\ call.done
    /\ call.arg = Some(<<"z", "z">>)
    /\ ~IsCatalogId(<<"z", "z">>)
    /\ call.ret = Some(Shortcode(<<"z", "z">>))

\* The input is null, empty, or colons only.
Malformed(arg) ==
    arg = None \/ \A i \in 1..Len(Get(arg)) : Get(arg)[i] = ":"

\* C19: each of the four resolver functions produces the empty string or
\* null for every malformed input (null, the empty string, colons only),
\* never a text with a colon in it.
C19_MalformedGivesEmpty ==
    (call.fn \in ResolverFns /\ call.done /\ Malformed(call.arg))
    => IF call.fn \in {"shortcodeToNative", "nativeToShortcode"}
       THEN call.ret = <<>>
       ELSE call.ret = None \/ call.ret = Some(<<>>)

\* C20: Remove activated on the open surface calls onSelect once, with null,
\* whatever the buffer content and the focus state.
C20_RemovePassesNull ==
    [][(lastEvent' = "Remove" /\ open) => onSelectCalls' = <<None>>]_vars

\* C20 happens: Remove was activated on an embedded surface with text in the
\* buffer and a grid focus index set, and passed null.
C20_Witness ==
    /\ lastEvent = "Remove"
    /\ embedded
    /\ searchQuery # <<>>
    /\ IsSome(focusedIndex)
    /\ onSelectCalls = <<None>>

\* The step is a commit (Enter on a valid grid focus, a click on an entry) or
\* a remove: onSelect was called by one of those handlers.
CommitOrRemoveStep ==
    /\ lastEvent' \in {"Enter", "GridEnter", "EmojiClick", "Remove"}
    /\ onSelectCalls' # <<>>

\* C21: a permanently embedded surface is open from the start, and after a
\* commit or a remove it is still open; on a surface that is not embedded a
\* commit or a remove leaves the surface closed and the buffer empty.
C21_TerminalUnlessEmbedded ==
    /\ embedded => open
    /\ [][CommitOrRemoveStep =>
              IF embedded THEN open' ELSE ~open' /\ searchQuery' = <<>>]_vars

\* Up is pressed while the grid has focus at an index: on a grid entry, or on
\* the trigger input while the search bar does not own the arrow keys.
UpInGridStep ==
    /\ open
    /\ IsSome(focusedIndex)
    /\ Get(focusedIndex) >= 0
    /\ \/ lastEvent' = "GridArrowUp"
       \/ lastEvent' = "ArrowUp" /\ ~isSearchActive

\* C22: Up with the grid focus in the first row (index below 7) moves focus to
\* the buffer: no grid focus index, caret at the end of the buffer, no
\* selection; Up at an index of 7 or more moves the grid focus up one row,
\* to index - 7, and focus stays where it was.
C22_UpLeavesGridFromFirstRow ==
    [][UpInGridStep =>
           IF Get(focusedIndex) < emojisPerRow
           THEN /\ focusedIndex' = None
                /\ isSearchActive'
                /\ caretIndex' = Len(searchQuery')
                /\ selection' = None
                /\ searchQuery' = searchQuery
           ELSE /\ focusedIndex' = Some(Get(focusedIndex) - emojisPerRow)
                /\ isSearchActive' = isSearchActive
                /\ searchQuery' = searchQuery]_vars

\* C22 happens: Up on a grid entry left no grid focus index (so the index was
\* in the first row), with the caret at the end of a non-empty buffer.
C22_Witness ==
    /\ lastEvent = "GridArrowUp"
    /\ open
    /\ focusedIndex = None
    /\ isSearchActive
    /\ searchQuery # <<>>
    /\ caretIndex = Len(searchQuery)
    /\ selection = None

\* C23: plain Down on the trigger input while focus is in the buffer and the
\* caret is at the end of the buffer moves focus to the grid at index 0,
\* whatever the buffer and the selection.
C23_DownAtBufferEndEntersGrid ==
    [][(/\ lastEvent' = "ArrowDown"
        /\ open
        /\ isSearchActive
        /\ caretIndex = Len(searchQuery))
       => focusedIndex' = Some(0) /\ ~isSearchActive']_vars

\* C24: a printable character, Backspace or Delete pressed while the grid has
\* focus at an index puts focus in the buffer and leaves no grid focus index,
\* also when the edit does not change the buffer.
C24_EditKeyLeavesGrid ==
    [][(/\ lastEvent' \in {"Char", "Backspace", "Delete"}
        /\ open
        /\ ~isSearchActive
        /\ IsSome(focusedIndex))
       => isSearchActive' /\ focusedIndex' = None]_vars

\* C25: a step that changes the filtered list leaves no grid focus index: the
\* index held against the old list is discarded, never carried to the new one.
C25_ListChangeDropsFocus ==
    [][filteredEmojis(searchQuery') # filteredEmojis(searchQuery)
       => focusedIndex' = None]_vars

\* C25 happens: a character was typed into an open surface, the filtered list
\* is no longer the catalog, and no grid focus index is held.
C25_Witness ==
    /\ lastEvent = "Char"
    /\ open
    /\ Len(searchQuery) = 1
    /\ filteredEmojis(searchQuery) # allEmojis
    /\ filteredEmojis(searchQuery) # <<>>
    /\ focusedIndex = None

\* An arrow key is handled as grid navigation: pressed on a grid entry, or on
\* the trigger input while the search bar does not own the arrow keys.
GridNavigationStep(key) ==
    /\ open
    /\ \/ lastEvent' = "Grid" \o key
       \/ lastEvent' = key /\ ~isSearchActive

\* C26: with the grid focus at index i of a filtered list of n >= 1 entries,
\* Right moves it to min(i + 1, n - 1) and Left to max(i - 1, 0): no move past
\* either end, no wrapping.
C26_RightLeftClampAtEnds ==
    [][LET n == Len(filteredEmojis(searchQuery))
       IN (IsSome(focusedIndex) /\ Get(focusedIndex) >= 0 /\ n >= 1)
          => /\ GridNavigationStep("ArrowRight")
                => focusedIndex' =
                       Some(IF Get(focusedIndex) + 1 <= n - 1
                            THEN Get(focusedIndex) + 1 ELSE n - 1)
             /\ GridNavigationStep("ArrowLeft")
                => focusedIndex' =
                       Some(IF Get(focusedIndex) - 1 >= 0
                            THEN Get(focusedIndex) - 1 ELSE 0)]_vars

\* C26 happens: Right on a grid entry ended on the last index of a filtered
\* list of several entries.
C26_Witness ==
    /\ lastEvent = "GridArrowRight"
    /\ open
    /\ searchQuery # <<>>
    /\ Len(filteredEmojis(searchQuery)) >= 2
    /\ focusedIndex = Some(Len(filteredEmojis(searchQuery)) - 1)

\* C27: in grid navigation Down without a focus index sets the index to 0,
\* and Down at index i sets it to min(i + 7, n - 1), n the filtered count.
C27_DownAdvancesOneRow ==
    [][LET n == Len(filteredEmojis(searchQuery))
       IN GridNavigationStep("ArrowDown")
          => IF focusedIndex = None
             THEN focusedIndex' = Some(0)
             ELSE Get(focusedIndex) >= 0
                  => focusedIndex' =
                         Some(IF Get(focusedIndex) + emojisPerRow <= n - 1
                              THEN Get(focusedIndex) + emojisPerRow ELSE n - 1)]_vars

\* C27 happens: Down on a grid entry ended on the last index of a filtered
\* list of 2 to 7 entries, so the advance by a row was clamped.
C27_Witness ==
    /\ lastEvent = "GridArrowDown"
    /\ open
    /\ Len(filteredEmojis(searchQuery)) \in 2..emojisPerRow
    /\ focusedIndex = Some(Len(filteredEmojis(searchQuery)) - 1)

\* The ordered bounds of the span an edit acts on: the active selection, or
\* the empty span at the caret.
EditFrom ==
    IF IsSome(selection)
    THEN IF Get(selection).start <= Get(selection).end
         THEN Get(selection).start ELSE Get(selection).end
    ELSE caretIndex

EditTo ==
    IF IsSome(selection)
    THEN IF Get(selection).start <= Get(selection).end
         THEN Get(selection).end ELSE Get(selection).start
    ELSE caretIndex

\* The step put text t in the place of the span [EditFrom, EditTo): the new
\* buffer is old[0..EditFrom) + t + old[EditTo..), the caret is right after t,
\* and no selection is left.
InsertedStep(t) ==
    /\ searchQuery' = SubSeq(searchQuery, 1, EditFrom) \o t
                      \o SubSeq(searchQuery, EditTo + 1, Len(searchQuery))
    /\ caretIndex' = EditFrom + Len(t)
    /\ selection' = None

\* C28: a typed character or a pasted text t replaces the active selection
\* [min, max), or is inserted at the caret when there is none; the caret ends
\* right after t and the selection is absent afterwards.
C28_InsertOrReplaceSelection ==
    [][/\ (lastEvent' = "Char" /\ open)
          => \E c \in KeyChars : InsertedStep(<<c>>)
       /\ (lastEvent' = "PasteResolve" /\ searchQuery' # searchQuery)
          => \E t \in PasteTexts : InsertedStep(t)]_vars

\* C28 happens: a character was typed in front of another one (at caret 0 or
\* over a selection starting at 0), and the caret is right after it.
C28_Witness ==
    /\ lastEvent = "Char"
    /\ open
    /\ Len(searchQuery) = 2
    /\ searchQuery[1] # searchQuery[2]
    /\ caretIndex = 1
    /\ selection = None

\* The step removed the codepoints [from, to) of the buffer and left the
\* caret at from.
RemovedStep(from, to) ==
    /\ searchQuery' = SubSeq(searchQuery, 1, from)
                      \o SubSeq(searchQuery, to + 1, Len(searchQuery))
    /\ caretIndex' = from

\* C29: Backspace and Delete remove the active selection [min, max) and leave
\* the caret at min; without a selection Backspace removes the codepoint
\* before the caret and moves the caret back by one, Delete removes the
\* codepoint at the caret and leaves the caret; Backspace at caret 0 and
\* Delete at the end of the buffer change neither buffer nor caret.
C29_DeleteBackwardAndForward ==
    [][/\ (lastEvent' = "Backspace" /\ open)
          => IF IsSome(selection)
             THEN RemovedStep(EditFrom, EditTo)
             ELSE IF caretIndex = 0
             THEN searchQuery' = searchQuery /\ caretIndex' = caretIndex
             ELSE RemovedStep(caretIndex - 1, caretIndex)
       /\ (lastEvent' = "Delete" /\ open)
          => IF IsSome(selection)
             THEN RemovedStep(EditFrom, EditTo)
             ELSE IF caretIndex = Len(searchQuery)
             THEN searchQuery' = searchQuery /\ caretIndex' = caretIndex
             ELSE RemovedStep(caretIndex, caretIndex + 1)]_vars

\* C29 happens: Delete took the first of two codepoints away (at caret 0, or
\* as the selection [0, 1)); one is left and the caret is at 0.
C29_Witness ==
    /\ lastEvent = "Delete"
    /\ open
    /\ Len(searchQuery) = 1
    /\ caretIndex = 0
    /\ selection = None

\* C30: plain Left or Right as a caret motion (the search bar owns the arrow
\* keys) while a selection [min, max) is active clears the selection and puts
\* the caret at min for Left and at max for Right, the buffer unchanged:
\* the caret does not move by one from where it was.
C30_PlainMotionCollapsesSelection ==
    [][(open /\ isSearchActive /\ IsSome(selection))
       => /\ lastEvent' = "ArrowLeft"
             => /\ selection' = None
                /\ caretIndex' = EditFrom
                /\ searchQuery' = searchQuery
          /\ lastEvent' = "ArrowRight"
             => /\ selection' = None
                /\ caretIndex' = EditTo
                /\ searchQuery' = searchQuery]_vars

\* C30 happens: plain Left collapsed a selection (only the collapse leaves an
\* anchor behind a plain motion) and the caret is at its start, before the
\* end of the buffer.
C30_Witness ==
    /\ lastEvent = "ArrowLeft"
    /\ open
    /\ isSearchActive
    /\ selection = None
    /\ selectionAnchorRef = Some(caretIndex)
    /\ caretIndex < Len(searchQuery)

\* The labels of the extending motions.
ShiftArrows ==
    {"Shift+ArrowLeft", "Shift+ArrowRight", "Shift+ArrowUp", "Shift+ArrowDown"}

\* An extending motion is handled as a caret motion: Shift + arrow on the
\* open surface while the search bar owns the arrow keys.
ExtendStep == lastEvent' \in ShiftArrows /\ open /\ isSearchActive

\* The position an extending motion moves the caret to: one to the left or
\* right, the start or the end of the buffer, kept within the buffer.
ExtendTarget ==
    CASE lastEvent' = "Shift+ArrowLeft" ->
             IF caretIndex - 1 < 0 THEN 0 ELSE caretIndex - 1
      [] lastEvent' = "Shift+ArrowRight" ->
             IF caretIndex + 1 > Len(searchQuery)
             THEN Len(searchQuery) ELSE caretIndex + 1
      [] lastEvent' = "Shift+ArrowUp" -> 0
      [] OTHER -> Len(searchQuery)

\* After the step the caret is at ExtendTarget and the selection spans from
\* anchor a to the caret; it is absent when they coincide.
SpansFromAnchor(a) ==
    /\ caretIndex' = ExtendTarget
    /\ searchQuery' = searchQuery
    /\ selection' = IF a = ExtendTarget
                    THEN None
                    ELSE Some([start |-> a, end |-> ExtendTarget])

\* C31: through a run of extending motions the anchor stays where it was when
\* the run began (the anchor already held, the caret position when none is
\* held): after each motion the selection spans exactly from that anchor to
\* the new caret, absent when they coincide, and its start is the stored
\* anchor and does not move while the selection lasts.
C31_AnchorReusedOrCaret ==
    [][ExtendStep =>
           /\ SpansFromAnchor(IF IsSome(selectionAnchorRef)
                              THEN Get(selectionAnchorRef)
                              ELSE caretIndex)
           /\ IsSome(selection') => selectionAnchorRef' = Some(Get(selection').start)
           /\ (IsSome(selection) /\ IsSome(selection'))
              => Get(selection').start = Get(selection).start]_vars

\* C32: Ctrl/Cmd+A on a non-empty buffer sets the selection from anchor 0 to
\* the caret at the buffer's length and leaves the buffer as it is; on an
\* empty buffer it changes neither buffer, caret nor selection.
C32_SelectAll ==
    [][lastEvent' = "SelectAll"
       => IF searchQuery # <<>>
          THEN /\ selection' = Some([start |-> 0, end |-> Len(searchQuery)])
               /\ selectionAnchorRef' = Some(0)
               /\ caretIndex' = Len(searchQuery)
               /\ searchQuery' = searchQuery
          ELSE UNCHANGED <<searchQuery, caretIndex, selection>>]_vars

\* C32 happens: select-all on a buffer of two codepoints whose caret is now at
\* the end, the selection spanning all of it.
C32_Witness ==
    /\ lastEvent = "SelectAll"
    /\ Len(searchQuery) = 2
    /\ selection = Some([start |-> 0, end |-> 2])
    /\ selectionAnchorRef = Some(0)
    /\ caretIndex = 2

\* The text of the span [EditFrom, EditTo) of the buffer.
SpanText == SubSeq(searchQuery, EditFrom + 1, EditTo)

\* Apart from what the event emitted, the step changed nothing of the
\* surface.
NoStateChange ==
    UNCHANGED <<open, searchQuery, caretIndex, selection, selectionAnchorRef,
                focusedIndex, isSearchActive>>

\* C33: copy emits the selected text [min, max) and leaves buffer, caret and
\* selection as they are; cut emits the same text, removes the span, puts the
\* caret at min and clears the selection; without a selection copy and cut
\* change no state and emit nothing.
C33_CopyAndCut ==
    [][/\ lastEvent' = "Copy"
          => /\ UNCHANGED <<searchQuery, caretIndex, selection>>
             /\ IF IsSome(selection)
                THEN clipboardWrites' = <<SpanText>>
                ELSE clipboardWrites' = <<>> /\ NoStateChange
       /\ lastEvent' = "Cut"
          => IF IsSome(selection)
             THEN /\ clipboardWrites' = <<SpanText>>
                  /\ RemovedStep(EditFrom, EditTo)
                  /\ selection' = None
             ELSE clipboardWrites' = <<>> /\ NoStateChange]_vars

\* C33 happens: cut took one codepoint out of a buffer, wrote it to the
\* clipboard, and one codepoint is left with no selection.
C33_Witness ==
    /\ lastEvent = "Cut"
    /\ Len(clipboardWrites) = 1
    /\ Len(clipboardWrites[1]) = 1
    /\ Len(searchQuery) = 1
    /\ selection = None

\* C34: a paste whose clipboard read fails or gives the empty text leaves
\* buffer, caret and selection as they are; a paste that reads a text t
\* replaces the active selection by t or inserts t at the caret, as typing t
\* would.
C34_PasteInsertsOrLeaves ==
    [][/\ lastEvent' \in {"PasteReject", "PasteEmpty"}
          => UNCHANGED <<searchQuery, caretIndex, selection>>
       /\ lastEvent' = "PasteResolve"
          => \E t \in PasteTexts : InsertedStep(t)]_vars

\* C34 happens: a paste read a text of two codepoints, which is now the
\* buffer, the caret right after it.
C34_Witness ==
    /\ lastEvent = "PasteResolve"
    /\ searchQuery \in PasteTexts
    /\ caretIndex = Len(searchQuery)
    /\ selection = None

\* C35: a paste is complete within the handling of its key press: the buffer
\* edit of a paste follows the key press with no other event handled in
\* between, on the surface that was open when the key was pressed.
C35_PasteWithinItsEvent ==
    [][lastEvent' = "PasteResolve" => (lastEvent = "PasteKey" /\ open)]_vars

\* C36: the drag begun by a pointer-down on the search bar is released by the
\* pointer-up or by the close of the surface, whichever comes first: no drag
\* is tracked while the surface is closed, and a pointer-move sample that
\* arrives after a close changes neither selection nor caret.
C36_DragReleasedOnClose ==
    /\ [](~open => ~isDraggingSelectionRef)
    /\ [][(lastEvent' = "DragMove" /\ ~open)
          => UNCHANGED <<selection, caretIndex>>]_vars

\* The cache as the catalog determines it: for each entry with a first
\* rendering variant, id -> that variant's glyph and that glyph -> id.
FirstVariantCache ==
    LET E == {e \in {emojiData[k] : k \in 1..Len(emojiData)} :
                  e.skins # <<>> /\ e.skins[1] # <<>>}
    IN [key \in {e.id : e \in E} \cup {e.skins[1] : e \in E} |->
            IF \E e \in E : e.id = key
            THEN (CHOOSE e \in E : e.id = key).skins[1]
            ELSE (CHOOSE e \in E : e.skins[1] = key).id]

\* The cache is built at most once, holds the first variants of the catalog,
\* and does not change once built.
CacheBuiltOnceAndKept ==
    /\ [](cacheBuilds <= 1)
    /\ [](IsSome(emojiCache) <=> cacheBuilds = 1)
    /\ [](IsSome(emojiCache) => Get(emojiCache) = FirstVariantCache)
    /\ [][IsSome(emojiCache) => emojiCache' = emojiCache]_vars

\* C37 as stated: the cache is built at most once, by the first resolver
\* call (after any call the cache is there), from the first rendering
\* variant of each entry, and no call changes it afterwards.
C37_BuiltByFirstCall ==
    /\ CacheBuiltOnceAndKept
    /\ [](call.done => IsSome(emojiCache))

\* C37 amended: the cache is built at most once, by the first call that looks
\* an id or a glyph up (a call that returns before its lookup builds
\* nothing), from the first rendering variant of each entry, and no call
\* changes it afterwards.
C37_BuiltByFirstLookup ==
    /\ CacheBuiltOnceAndKept
    /\ []((/\ call.done
           /\ call.arg # None
           /\ \/ /\ call.fn \in {"shortcodeToNative", "validateNormalizeShortcode"}
                 /\ IsCatalogId(Unwrapped(Get(call.arg)))
              \/ /\ call.fn \in {"nativeToShortcode", "normalizeFlagToShortcode"}
                 /\ IsCatalogGlyph(Get(call.arg)))
          => IsSome(emojiCache))

\* C37 happens: a call that returned before its lookup was made on the built
\* cache, which was built once.
C37_Witness ==
    /\ call.done
    /\ call.fn = "normalizeFlagToShortcode"
    /\ call.arg = Some(<<"z", "z">>)
    /\ IsSome(emojiCache)
    /\ cacheBuilds = 1

\* C38: onSelect is called only by a commit (Enter on the open surface with a
\* grid focus index that names an entry of the filtered list, or a click on
\* an entry), by Remove, or by a blur with clearOnBlur and no current value;
\* no navigation key, buffer edit, caret or selection operation, clipboard
\* shortcut, pointer hover or Escape calls it.
C38_OnSelectOnlyByCommitRemoveBlur ==
    [][onSelectCalls' # <<>>
       => \/ /\ lastEvent' \in {"Enter", "GridEnter"}
             /\ open
             /\ IsSome(focusedIndex)
             /\ Get(focusedIndex) >= 0
             /\ Get(focusedIndex) < Len(filteredEmojis(searchQuery))
          \/ lastEvent' \in {"EmojiClick", "Remove"} /\ open
          \/ lastEvent' = "BlurNoValue"]_vars

\* C38 happens: a blur with clearOnBlur and no value called onSelect with
\* null after text had been typed.
C38_Witness ==
    /\ lastEvent = "BlurNoValue"
    /\ onSelectCalls = <<None>>
    /\ embedded
    /\ searchQuery # <<>>

\* C39: id and glyph go through the resolver and come back: for every catalog
\* entry, with glyphs distinct across entries, normalizeFlagToShortcode and
\* nativeToShortcode of shortcodeToNative(":" + id + ":") are ":" + id + ":",
\* and shortcodeToNative of nativeToShortcode(glyph) is glyph.
C39_ResolverRoundTrip ==
    call.done
    => /\ call.fn = "normalizeFlagToShortcode.shortcodeToNative"
          => call.ret = call.arg
       /\ call.fn = "nativeToShortcode.shortcodeToNative"
          => call.ret = Get(call.arg)
       /\ call.fn = "shortcodeToNative.nativeToShortcode"
          => call.ret = Get(call.arg)

\* The glyphs of the catalog are distinct across entries.
GlyphsDistinct ==
    \A j, k \in 1..Len(allEmojis) :
        allEmojis[j].native = allEmojis[k].native => j = k

\* C39 happens: the glyph of an entry went to its shortcode and came back, in
\* a catalog of distinct glyphs.
C39_Witness ==
    /\ GlyphsDistinct
    /\ call.done
    /\ call.fn = "shortcodeToNative.nativeToShortcode"
    /\ call.arg = Some(<<"U+1F44D">>)
    /\ call.ret = <<"U+1F44D">>

\* C40: a selection that is present ends at the caret index and starts at the
\* stored anchor (selectionAnchorRef); with no selection present, a stored
\* anchor equals the caret, so that a following Shift+arrow starts its
\* selection at the current caret.
C40_SelectionTracksAnchorAndCaret ==
    /\ IsSome(selection)
       => /\ Get(selection).end = caretIndex
          /\ selectionAnchorRef = Some(Get(selection).start)
    /\ (selection = None /\ IsSome(selectionAnchorRef))
       => Get(selectionAnchorRef) = caretIndex

====
